---- MODULE Spec2Model ----
(***************************************************************************)
(* Model of the virtual file system of CSE-5305/Zongming_Juli/VFS.py.      *)
(*                                                                         *)
(* Every method of VirtualFileSystem is an operator from the object's      *)
(* fields (a record "self") to a result record                             *)
(*     [self |-> fields after the call, ret |-> returned value,            *)
(*      fault |-> TRUE when the call ended in an uncaught exception].      *)
(* An action of the state machine is one pass of the main loop: one        *)
(* command line handed to process_command.  An uncaught exception ends     *)
(* the program (the main loop has no handler), with the fields as the      *)
(* method left them.                                                       *)
(*                                                                         *)
(* Python object identity: a directory tree is a function from paths       *)
(* (sequences of names below the user's root) to nodes.  A reference to a  *)
(* node that is in a tree is the pair (user, path); open_files holds such  *)
(* references.  When a node is unlinked from its tree while open_files     *)
(* still refers to it, the entry keeps the node itself (its type and       *)
(* content), as the Python dict keeps the object alive.                    *)
(***************************************************************************)
EXTENDS Integers, Sequences, FiniteSets, TLC

\* ------------------------------------------------------------------ bounds
\* length of the disk (1024 * 1024 in the program)
DiskSize == 2
\* longest text of one write command
MaxWriteLen == 2
\* number of commands that change the file system in one run
MaxSteps == 8

Users == {"u1", "u2"}
Passwords == {"p", "q"}
Names == {"a", "b"}
\* code points of the characters a written text is made of: 'x' and U+00E9
Chars == {120, 233}

NoUser == "None"

Min(a, b) == IF a < b THEN a ELSE b
Max(a, b) == IF a > b THEN a ELSE b

\* ------------------------------------------------------- Python primitives
\* s[:k] for a sequence s and an integer k (negative k counts from the end)
PyPrefix(s, k) ==
    IF k >= 0 THEN SubSeq(s, 1, Min(k, Len(s)))
    ELSE SubSeq(s, 1, Max(Len(s) + k, 0))

\* b[lo:hi] = v for a bytearray b and 0 <= lo, 0 <= hi: the slice is clipped
\* to the array, an empty slice sits at lo, and the array changes length
\* when v is not as long as the slice
PySliceAssign(b, lo, hi, v) ==
    LET l == Min(lo, Len(b))
        h == Max(l, Min(hi, Len(b)))
    IN  SubSeq(b, 1, l) \o v \o SubSeq(b, h + 1, Len(b))

\* len(b[lo:hi])
PySliceLen(b, lo, hi) ==
    LET l == Min(lo, Len(b))
        h == Max(l, Min(hi, Len(b)))
    IN  h - l

\* b[lo:hi] as a sequence
PySlice(b, lo, hi) ==
    LET l == Min(lo, Len(b))
        h == Max(l, Min(hi, Len(b)))
    IN  SubSeq(b, l + 1, h)

Zeros(n) == [i \in 1..n |-> 0]

\* UTF-8 of one code point below U+0800
Utf8(c) == IF c < 128 THEN <<c>> ELSE <<192 + (c \div 64), 128 + (c % 64)>>

\* str.encode()
RECURSIVE encode(_)
encode(s) == IF s = <<>> THEN <<>> ELSE Utf8(Head(s)) \o encode(Tail(s))

\* ------------------------------------------------------------------- trees
FileNode(c) == [type |-> "file", content |-> c]
DirNode == [type |-> "dir", content |-> <<>>]

IsPrefix(p, q) == Len(p) <= Len(q) /\ SubSeq(q, 1, Len(p)) = p

\* names of the children of the directory at path p of a tree
ChildNames(tree, p) ==
    {q[Len(q)] : q \in {r \in DOMAIN tree : Len(r) = Len(p) + 1 /\ IsPrefix(p, r)}}

\* the tree without the node at path p and everything below it
Unlink(tree, p) == [q \in {r \in DOMAIN tree : ~IsPrefix(p, r)} |-> tree[q]]

\* the tree with node n at path p
Link(tree, p, n) == [q \in DOMAIN tree \cup {p} |-> IF q = p THEN n ELSE tree[q]]

EmptyTree == [q \in {} |-> DirNode]

\* --------------------------------------------------------- open-file table
\* an entry refers to a node linked in a tree (att) or holds an unlinked node
Attached(u, p) == [att |-> TRUE, user |-> u, path |-> p, node |-> DirNode]
Detached(n) == [att |-> FALSE, user |-> NoUser, path |-> <<>>, node |-> n]

\* the node an open-file entry refers to
Deref(self, h) == IF h.att THEN self.root[h.user].FAT[h.path] ELSE h.node

\* open_files once the subtree at path p of user u has been unlinked
DetachUnder(self, u, p) ==
    [f \in DOMAIN self.open_files |->
        LET h == self.open_files[f]
        IN  IF h.att /\ h.user = u /\ IsPrefix(p, h.path)
            THEN Detached(self.root[u].FAT[h.path])
            ELSE h]

\* ----------------------------------------------------------------- results
Resp(msg, arg) == [msg |-> msg, arg |-> arg, data |-> <<>>, names |-> {}]
Ret(self, msg, arg) == [self |-> self, ret |-> Resp(msg, arg), fault |-> FALSE]
Raise(self, exc) == [self |-> self, ret |-> Resp(exc, ""), fault |-> TRUE]

\* ------------------------------------------------------------ constructor
init_self ==
    [current_user |-> NoUser,
     root |-> [u \in {} |-> [password |-> "", FAT |-> EmptyTree]],
     current_dir |-> <<>>,
     open_files |-> [f \in {} |-> Detached(DirNode)],
     path |-> <<>>,
     disk_space |-> Zeros(DiskSize),
     fat_table |-> [f \in {} |-> <<0, 0>>],
     next_free_space |-> 0]

\* self.current_dir["children"] can be evaluated: current_dir is a node
\* that has the key "children"
HasChildren(self) ==
    /\ self.current_dir # <<>>
    /\ LET d == self.current_dir[1]
       IN  \/ d.path = <<>>
           \/ self.root[d.user].FAT[d.path].type = "dir"

\* the keys of self.current_dir["children"]
CurChildren(self) ==
    LET d == self.current_dir[1] IN ChildNames(self.root[d.user].FAT, d.path)

\* the path of child `name` of the current directory
ChildPath(self, name) == Append(self.current_dir[1].path, name)

\* self.current_dir["children"][name]
CurChild(self, name) ==
    LET d == self.current_dir[1] IN self.root[d.user].FAT[ChildPath(self, name)]

\* the fields with the tree of the current directory's user replaced
WithTree(self, tree) ==
    LET u == self.current_dir[1].user
    IN  [self EXCEPT !.root = [self.root EXCEPT ![u] = [@ EXCEPT !.FAT = tree]]]

CurTree(self) == self.root[self.current_dir[1].user].FAT


\* ------------------------------------------------------------ disk report
RECURSIVE SumUsed(_, _, _)
SumUsed(fat, disk, S) ==
    IF S = {} THEN 0
    ELSE LET f == CHOOSE x \in S : TRUE
         IN  PySliceLen(disk, fat[f][1], fat[f][2]) + SumUsed(fat, disk, S \ {f})

\* display_disk_usage: prints "Disk usage: used/total bytes"
display_disk_usage(self) ==
    [self |-> self,
     ret |-> [Resp("Disk usage", "") EXCEPT
                !.data = <<SumUsed(self.fat_table, self.disk_space, DOMAIN self.fat_table),
                           Len(self.disk_space)>>],
     fault |-> FALSE]

\* _build_file_paths: the names for which the walk of the tree finds a file
\* (its keys; show_fat_table prints "Unknown" for every other name)
_build_file_paths(tree) == {q[Len(q)] : q \in {r \in DOMAIN tree : tree[r].type = "file"}}

\* show_fat_table: prints every FAT entry with its start and end
show_fat_table(self) ==
    IF self.current_user \notin DOMAIN self.root THEN Raise(self, "KeyError")
    ELSE LET file_paths == _build_file_paths(self.root[self.current_user].FAT)
         IN  [self |-> self,
              ret |-> [Resp("FAT Table", "") EXCEPT
                         !.names = {<<f, f \in file_paths, self.fat_table[f][1], self.fat_table[f][2]>> :
                                      f \in DOMAIN self.fat_table}],
              fault |-> FALSE]

\* ---------------------------------------------------------------- accounts
register(self, username, password) ==
    IF username \in DOMAIN self.root THEN Ret(self, "User already exists.", "")
    ELSE Ret([self EXCEPT !.root =
                 [u \in DOMAIN self.root \cup {username} |->
                     IF u = username THEN [password |-> password, FAT |-> EmptyTree]
                     ELSE self.root[u]]],
             "User registered successfully.", username)

\* login that does not compare the password
login_any_password(self, username, password) ==
    IF username \in DOMAIN self.root
    THEN Ret([self EXCEPT !.current_user = username,
                          !.current_dir = <<[user |-> username, path |-> <<>>]>>,
                          !.path = <<>>],
             "User logged in successfully.", username)
    ELSE Ret(self, "Login failed.", "")

login(self, username, password) ==
    IF username \in DOMAIN self.root /\ self.root[username].password = password
    THEN Ret([self EXCEPT !.current_user = username,
                          !.current_dir = <<[user |-> username, path |-> <<>>]>>,
                          !.path = <<>>],
             "User logged in successfully.", username)
    ELSE Ret(self, "Login failed.", "")

logout(self) ==
    IF self.current_user # NoUser
    THEN Ret([self EXCEPT !.current_user = NoUser, !.current_dir = <<>>, !.path = <<>>],
             "User logged out successfully.", self.current_user)
    ELSE Ret(self, "No user currently logged in.", "")

\* dir: the names of the children (as a set: the order of insertion that the
\* returned list keeps is not modelled)
dir(self) ==
    IF ~HasChildren(self) THEN Raise(self, "TypeError")
    ELSE [self |-> self,
          ret |-> [Resp("dir", "") EXCEPT !.names = CurChildren(self)],
          fault |-> FALSE]

\* ------------------------------------------------------------------- files
\* d[k] = v for a dict d modelled as a function
DictSet(d, k, v) == [x \in DOMAIN d \cup {k} |-> IF x = k THEN v ELSE d[x]]
\* del d[k]
DictDel(d, k) == [x \in DOMAIN d \ {k} |-> d[x]]

\* create without the test for an existing child: the new empty file takes
\* the place of whatever had the name
create_overwrites(self, filename) ==
    IF ~HasChildren(self) THEN Raise(self, "TypeError")
    ELSE LET p == ChildPath(self, filename)
             s1 == WithTree(self, Link(Unlink(CurTree(self), p), p, FileNode(<<>>)))
             s2 == [s1 EXCEPT !.fat_table =
                        DictSet(@, filename, <<self.next_free_space, self.next_free_space>>)]
         IN  Ret(s2, "File created.", filename)

create(self, filename) ==
    IF ~HasChildren(self) THEN Raise(self, "TypeError")
    ELSE IF filename \notin CurChildren(self)
    THEN LET s1 == WithTree(self, Link(CurTree(self), ChildPath(self, filename), FileNode(<<>>)))
             s2 == [s1 EXCEPT !.fat_table =
                        DictSet(@, filename, <<self.next_free_space, self.next_free_space>>)]
         IN  Ret(s2, "File created.", filename)
    ELSE Ret(self, "File already exists.", "")

\* delete with the free-space cursor left where it was
delete_keeps_cursor(self, filename) ==
    IF ~HasChildren(self) THEN Raise(self, "TypeError")
    ELSE IF filename \in CurChildren(self)
    THEN LET u == self.current_dir[1].user
             p == ChildPath(self, filename)
             s1 == [WithTree(self, Unlink(CurTree(self), p)) EXCEPT
                        !.open_files = DetachUnder(self, u, p)]
         IN  IF filename \notin DOMAIN self.fat_table THEN Raise(s1, "KeyError")
             ELSE LET file_start == self.fat_table[filename][1]
                      file_end == self.fat_table[filename][2]
                  IN  IF file_end - file_start < 0 THEN Raise(s1, "ValueError")
                      ELSE Ret([s1 EXCEPT
                                  !.disk_space = PySliceAssign(@, file_start, file_end,
                                                               Zeros(file_end - file_start)),
                                  !.fat_table = DictDel(@, filename)],
                               "File deleted.", filename)
    ELSE Ret(self, "File not found.", "")

delete(self, filename) ==
    IF ~HasChildren(self) THEN Raise(self, "TypeError")
    ELSE IF filename \in CurChildren(self)
    THEN LET u == self.current_dir[1].user
             p == ChildPath(self, filename)
             \* del self.current_dir["children"][filename]
             s1 == [WithTree(self, Unlink(CurTree(self), p)) EXCEPT
                        !.open_files = DetachUnder(self, u, p)]
         IN  IF filename \notin DOMAIN self.fat_table THEN Raise(s1, "KeyError")
             ELSE LET file_start == self.fat_table[filename][1]
                      file_end == self.fat_table[filename][2]
                  IN  IF file_end - file_start < 0 THEN Raise(s1, "ValueError")
                      ELSE LET s2 == [s1 EXCEPT
                                        !.disk_space = PySliceAssign(@, file_start, file_end,
                                                                     Zeros(file_end - file_start)),
                                        !.next_free_space = file_start,
                                        !.fat_table = DictDel(@, filename)]
                           IN  IF show_fat_table(s2).fault THEN Raise(s2, "KeyError")
                               ELSE Ret(s2, "File deleted.", filename)
    ELSE Ret(self, "File not found.", "")

open(self, filename) ==
    IF ~HasChildren(self) THEN Raise(self, "TypeError")
    ELSE IF filename \in CurChildren(self) /\ filename \notin DOMAIN self.open_files
    THEN Ret([self EXCEPT !.open_files =
                 DictSet(@, filename, Attached(self.current_dir[1].user, ChildPath(self, filename)))],
             "File opened.", filename)
    ELSE Ret(self, "File not found or already opened.", "")

\* close that answers "File closed." and leaves the entry in open_files
close_keeps_entry(self, filename) ==
    IF filename \in DOMAIN self.open_files
    THEN Ret(self, "File closed.", filename)
    ELSE Ret(self, "File not opened.", "")

close(self, filename) ==
    IF filename \in DOMAIN self.open_files
    THEN Ret([self EXCEPT !.open_files = DictDel(@, filename)], "File closed.", filename)
    ELSE Ret(self, "File not opened.", "")

read(self, filename) ==
    IF filename \in DOMAIN self.open_files
    THEN LET n == Deref(self, self.open_files[filename])
         IN  IF n.type # "file" THEN Raise(self, "KeyError")
             ELSE [self |-> self,
                   ret |-> [Resp("content", "") EXCEPT !.data = n.content],
                   fault |-> FALSE]
    ELSE Ret(self, "File not opened.", "")

\* self.open_files[filename]["content"] += content
AppendContent(self, filename, content) ==
    LET h == self.open_files[filename]
    IN  IF h.att
        THEN [self EXCEPT !.root[h.user].FAT[h.path].content = @ \o content]
        ELSE [self EXCEPT !.open_files[filename].node.content = @ \o content]

write(self, filename, content) ==
    IF filename \in DOMAIN self.open_files
    THEN IF filename \notin DOMAIN self.fat_table THEN Raise(self, "KeyError")
         ELSE LET file_start == self.fat_table[filename][1]
                  file_end == self.fat_table[filename][2]
                  new_end == Min(file_end + Len(content), Len(self.disk_space))
                  s1 == [self EXCEPT !.disk_space =
                            PySliceAssign(@, file_start, new_end,
                                          encode(PyPrefix(content, new_end - file_start)))]
              IN  IF Deref(self, self.open_files[filename]).type # "file"
                  THEN Raise(s1, "KeyError")
                  ELSE Ret([AppendContent(s1, filename, content) EXCEPT
                               !.fat_table = DictSet(@, filename, <<file_start, new_end>>),
                               !.next_free_space = new_end],
                           "Content written to file.", "")
    ELSE Ret(self, "File not opened.", "")


\* ------------------------------------------------------------- directories
\* how many names of path p the walk from the root of `tree` gets through:
\* step i needs the node reached so far to have children and p[i] among them
RECURSIVE WalkLen(_, _, _)
WalkLen(tree, p, k) ==
    IF k = Len(p) THEN k
    ELSE IF /\ (k = 0 \/ tree[SubSeq(p, 1, k)].type = "dir")
            /\ SubSeq(p, 1, k + 1) \in DOMAIN tree
         THEN WalkLen(tree, p, k + 1)
         ELSE k

\* _update_current_dir that leaves the working directory where it was
_update_current_dir_stays(self) ==
    IF self.current_user \notin DOMAIN self.root THEN Raise(self, "KeyError")
    ELSE Ret(self, "", "")

_update_current_dir(self) ==
    IF self.current_user \notin DOMAIN self.root THEN Raise(self, "KeyError")
    ELSE LET k == WalkLen(self.root[self.current_user].FAT, self.path, 0)
             s1 == [self EXCEPT !.current_dir =
                       <<[user |-> self.current_user, path |-> SubSeq(self.path, 1, k)]>>]
         IN  IF k < Len(self.path) THEN Raise(s1, "KeyError")
             ELSE Ret(s1, "", "")

\* cd that enters any child, file or directory
cd_into_any_child(self, dirname) ==
    IF dirname = ".."
    THEN IF self.path # <<>>
         THEN LET r == _update_current_dir(
                          [self EXCEPT !.path = SubSeq(@, 1, Len(@) - 1)])
              IN  IF r.fault THEN r
                  ELSE Ret(r.self, "Returned to the parent directory.", "")
         ELSE Ret(self, "Already at the root directory.", "")
    ELSE IF ~HasChildren(self) THEN Raise(self, "TypeError")
    ELSE IF dirname \in CurChildren(self)
    THEN Ret([self EXCEPT !.path = Append(@, dirname),
                          !.current_dir = <<[user |-> self.current_dir[1].user,
                                             path |-> ChildPath(self, dirname)]>>],
             "Changed directory.", dirname)
    ELSE Ret(self, "Directory not found.", "")

cd(self, dirname) ==
    IF dirname = ".."
    THEN IF self.path # <<>>
         THEN LET r == _update_current_dir(
                          [self EXCEPT !.path = SubSeq(@, 1, Len(@) - 1)])
              IN  IF r.fault THEN r
                  ELSE Ret(r.self, "Returned to the parent directory.", "")
         ELSE Ret(self, "Already at the root directory.", "")
    ELSE IF ~HasChildren(self) THEN Raise(self, "TypeError")
    ELSE IF dirname \in CurChildren(self) /\ CurChild(self, dirname).type = "dir"
    THEN LET r == _update_current_dir([self EXCEPT !.path = Append(@, dirname)])
         IN  IF r.fault THEN r
             ELSE Ret(r.self, "Changed directory.", dirname)
    ELSE Ret(self, "Directory not found.", "")

rd(self, dirname) ==
    IF ~HasChildren(self) THEN Raise(self, "TypeError")
    ELSE IF dirname \in CurChildren(self) /\ CurChild(self, dirname).type = "dir"
    THEN LET u == self.current_dir[1].user
             p == ChildPath(self, dirname)
         IN  Ret([WithTree(self, Unlink(CurTree(self), p)) EXCEPT
                     !.open_files = DetachUnder(self, u, p)],
                 "Directory deleted.", dirname)
    ELSE Ret(self, "Directory not found or is a file.", "")

md(self, dirname) ==
    IF ~HasChildren(self) THEN Raise(self, "TypeError")
    ELSE IF dirname \notin CurChildren(self)
    THEN Ret(WithTree(self, Link(CurTree(self), ChildPath(self, dirname), DirNode)),
             "Directory created.", dirname)
    ELSE Ret(self, "Directory already exists.", "")

\* -------------------------------------------------------------- dispatcher
\* str.lower() on the command words the model types
lower(w) ==
    CASE w = "DISKUSAGE" -> "diskusage"
      [] OTHER -> w

\* " ".join(tokens), a text being a sequence of code points
RECURSIVE join(_)
join(tokens) ==
    IF Len(tokens) = 0 THEN <<>>
    ELSE IF Len(tokens) = 1 THEN tokens[1]
    ELSE tokens[1] \o <<32>> \o join(Tail(tokens))

\* process_command on the split line `args`
process_command(self, args) ==
    IF Len(args) = 0 THEN Ret(self, "No command entered.", "")
    ELSE LET cmd == lower(args[1])
             n == Len(args)
         IN  IF cmd = "diskusage" THEN display_disk_usage(self)
             ELSE IF cmd = "showfat" THEN show_fat_table(self)
             ELSE IF cmd = "register" /\ n = 3 THEN register(self, args[2], args[3])
             ELSE IF cmd = "login" /\ n = 3 THEN login(self, args[2], args[3])
             ELSE IF cmd = "logout" THEN logout(self)
             ELSE IF cmd = "dir" THEN dir(self)
             ELSE IF cmd = "create" /\ n = 2 THEN create(self, args[2])
             ELSE IF cmd = "del" /\ n = 2 THEN delete(self, args[2])
             ELSE IF cmd = "open" /\ n = 2 THEN open(self, args[2])
             ELSE IF cmd = "close" /\ n = 2 THEN close(self, args[2])
             ELSE IF cmd = "read" /\ n = 2 THEN read(self, args[2])
             ELSE IF cmd = "write" /\ n >= 3
                  THEN write(self, args[2], join(SubSeq(args, 3, n)))
             ELSE IF cmd = "cd" /\ n = 2 THEN cd(self, args[2])
             ELSE IF cmd = "md" /\ n = 2 THEN md(self, args[2])
             ELSE IF cmd = "rd" /\ n = 2 THEN rd(self, args[2])
             ELSE Ret(self, "Invalid command or incorrect number of arguments.", "")


\* ----------------------------------------------------------- state machine
VARIABLES current_user, root, current_dir, open_files, path, disk_space,
          fat_table, next_free_space, crashed, steps, opened

vars == <<current_user, root, current_dir, open_files, path, disk_space,
          fat_table, next_free_space, crashed, steps, opened>>

\* the fields of the one VirtualFileSystem instance
vfs ==
    [current_user |-> current_user, root |-> root, current_dir |-> current_dir,
     open_files |-> open_files, path |-> path, disk_space |-> disk_space,
     fat_table |-> fat_table, next_free_space |-> next_free_space]

\* texts a write command can carry: at least one character
Texts == UNION {[1..n -> Chars] : n \in 1..MaxWriteLen}

Init ==
    /\ current_user = init_self.current_user
    /\ root = init_self.root
    /\ current_dir = init_self.current_dir
    /\ open_files = init_self.open_files
    /\ path = init_self.path
    /\ disk_space = init_self.disk_space
    /\ fat_table = init_self.fat_table
    /\ next_free_space = init_self.next_free_space
    /\ crashed = FALSE
    /\ steps = 0
    /\ opened = {}

\* one pass of the main loop: response = vfs.process_command(command).  The
\* response is printed and kept nowhere; an exception raised inside leaves
\* the loop and ends the program.  steps counts the commands that changed a
\* field or raised.  opened is the history of the answers: the names whose
\* last "File opened." was not followed by a "File closed.".
Command(args) ==
    \E r \in {process_command(vfs, args)} :
        /\ current_user' = r.self.current_user
        /\ root' = r.self.root
        /\ current_dir' = r.self.current_dir
        /\ open_files' = r.self.open_files
        /\ path' = r.self.path
        /\ disk_space' = r.self.disk_space
        /\ fat_table' = r.self.fat_table
        /\ next_free_space' = r.self.next_free_space
        /\ crashed' = r.fault
        /\ steps' = IF r.self # vfs \/ r.fault THEN steps + 1 ELSE steps
        /\ opened' = IF r.ret.msg = "File opened." THEN opened \cup {r.ret.arg}
                      ELSE IF r.ret.msg = "File closed." THEN opened \ {r.ret.arg}
                      ELSE opened

\* the main loop is still running and the run has commands left
Running == ~crashed /\ steps < MaxSteps

Register == \E u \in Users, p \in Passwords : Running /\ Command(<<"register", u, p>>)
Login == \E u \in Users, p \in Passwords : Running /\ Command(<<"login", u, p>>)
Logout == Running /\ Command(<<"logout">>)
Dir == Running /\ Command(<<"dir">>)
Create == \E f \in Names : Running /\ Command(<<"create", f>>)
Del == \E f \in Names : Running /\ Command(<<"del", f>>)
Open == \E f \in Names : Running /\ Command(<<"open", f>>)
Close == \E f \in Names : Running /\ Command(<<"close", f>>)
Read == \E f \in Names : Running /\ Command(<<"read", f>>)
Write == \E f \in Names, s \in Texts : Running /\ Command(<<"write", f, s>>)
Cd == \E d \in Names \cup {".."} : Running /\ Command(<<"cd", d>>)
Md == \E d \in Names : Running /\ Command(<<"md", d>>)
Rd == \E d \in Names : Running /\ Command(<<"rd", d>>)
DiskUsage == \E w \in {"diskusage", "DISKUSAGE"} : Running /\ Command(<<w>>)
ShowFat == Running /\ Command(<<"showfat">>)
Invalid == \E args \in {<<>>, <<"create">>} : Running /\ Command(args)

Next ==
    \/ Register \/ Login \/ Logout \/ Dir \/ Create \/ Del \/ Open \/ Close
    \/ Read \/ Write \/ Cd \/ Md \/ Rd \/ DiskUsage \/ ShowFat \/ Invalid

Spec == Init /\ [][Next]_vars

\* ------------------------------------------------------------------ claims
\* every command line the model types
Commands ==
    {<<"register", u, p>> : u \in Users, p \in Passwords}
    \cup {<<"login", u, p>> : u \in Users, p \in Passwords}
    \cup {<<c, f>> : c \in {"create", "del", "open", "close", "read", "md", "rd"}, f \in Names}
    \cup {<<"cd", d>> : d \in Names \cup {".."}}
    \cup {<<"write", f, s>> : f \in Names, s \in Texts}
    \cup {<<"logout">>, <<"diskusage">>, <<"showfat">>}

LoggedIn == ~crashed /\ current_user # NoUser

\* the used-bytes figure display_disk_usage prints
UsedBytes(self) == display_disk_usage(self).ret.data[1]

\* write(f, s) on `self` clips nothing: the file's new end is inside the disk
NoTruncation(self, f, s) == self.fat_table[f][2] + Len(s) <= Len(self.disk_space)

\* create(f); open(f); write(f, s) on `self`, one call after the other
CreateOpenWrite(self, f, s) == write(open(create(self, f).self, f).self, f, s)

\* C1: from a state with a user logged in where f is no child of the current
\* directory and s fits the space left on the disk,
\* create(f); open(f); write(f, s); read(f) returns exactly s
C1_RoundTrip ==
    \A f \in Names, s \in Texts :
        (/\ LoggedIn
         /\ f \notin CurChildren(vfs)
         /\ Len(s) <= Len(disk_space) - next_free_space
         /\ Len(s) <= Len(disk_space) - UsedBytes(vfs))
        => LET r == read(CreateOpenWrite(vfs, f, s).self, f)
           IN  ~r.fault /\ r.ret.msg = "content" /\ r.ret.data = s

\* C2: with a user logged in, no command ends in an uncaught exception
C2_AllFailuresSoft ==
    LoggedIn => \A c \in Commands : ~process_command(vfs, c).fault

\* the disk bytes in f's FAT range are the bytes of the content of the node
\* that open_files holds for f
InSync(self, f) ==
    /\ f \in DOMAIN self.open_files
    /\ f \in DOMAIN self.fat_table
    /\ LET n == Deref(self, self.open_files[f])
       IN  /\ n.type = "file"
           /\ PySlice(self.disk_space, self.fat_table[f][1], self.fat_table[f][2])
                = encode(n.content)
           /\ self.fat_table[f][2] - self.fat_table[f][1] = Len(encode(n.content))

\* C3: a successful write(f, s) that clips nothing, on an open file whose disk
\* range holds the bytes of its content, leaves the range holding the bytes
\* of the longer content
C3_ContentDiskSync ==
    \A f \in Names, s \in Texts :
        (/\ ~crashed
         /\ InSync(vfs, f)
         /\ NoTruncation(vfs, f, s)
         /\ ~write(vfs, f, s).fault)
        => InSync(write(vfs, f, s).self, f)

\* C4: the non-empty FAT ranges of two different names do not overlap
C4_NoOverlap ==
    ~crashed =>
        \A f, g \in DOMAIN fat_table :
            (/\ f # g
             /\ fat_table[f][1] < fat_table[f][2]
             /\ fat_table[g][1] < fat_table[g][2])
            => (fat_table[f][2] <= fat_table[g][1] \/ fat_table[g][2] <= fat_table[f][1])

\* C5: every FAT entry (start, end) has 0 <= start <= end <= len(disk_space)
C5_FatWithinDisk ==
    ~crashed =>
        \A f \in DOMAIN fat_table :
            /\ 0 <= fat_table[f][1]
            /\ fat_table[f][1] <= fat_table[f][2]
            /\ fat_table[f][2] <= Len(disk_space)

\* C6: the disk keeps the length it was constructed with
C6_DiskLengthFixed == ~crashed => Len(disk_space) = DiskSize

\* C7: create(f); open(f); write(f, s) with nothing clipped, from a state with
\* a user logged in where f is no child of the current directory, raises the
\* used-bytes figure by exactly len(s)
C7_AllocationAccounting ==
    \A f \in Names, s \in Texts :
        (/\ LoggedIn
         /\ f \notin CurChildren(vfs)
         /\ next_free_space + Len(s) <= Len(disk_space))
        => LET r == CreateOpenWrite(vfs, f, s)
           IN  ~r.fault /\ UsedBytes(r.self) = UsedBytes(vfs) + Len(s)

\* delete(f) succeeds on the current state
DeleteSucceeds(f) == ~crashed /\ delete(vfs, f).ret.msg = "File deleted."

\* C8: a successful delete(f), f's FAT entry being (start, end), leaves every
\* disk byte in [start, end) zero, leaves no FAT entry for f and leaves the
\* free-space cursor at start
C8_SpaceReclaim ==
    \A f \in Names :
        DeleteSucceeds(f) =>
            LET start == fat_table[f][1]
                end == fat_table[f][2]
                after == delete(vfs, f).self
            IN  /\ \A i \in start..(end - 1) :
                      i < Len(after.disk_space) => after.disk_space[i + 1] = 0
                /\ f \notin DOMAIN after.fat_table
                /\ after.next_free_space = start

\* a delete that succeeds on a file whose range holds written bytes and does
\* not start at the cursor
C8_Witness ==
    \E f \in Names :
        /\ DeleteSucceeds(f)
        /\ CurChild(vfs, f).type = "file"
        /\ fat_table[f][1] < fat_table[f][2]
        /\ fat_table[f][2] <= Len(disk_space)
        /\ \E i \in (fat_table[f][1] + 1)..fat_table[f][2] : disk_space[i] # 0
        /\ next_free_space # fat_table[f][1]

\* C9: the free-space cursor is at or past the end of every FAT entry
C9_CursorPastEnd ==
    ~crashed => \A f \in DOMAIN fat_table : next_free_space >= fat_table[f][2]

\* C10: every entry of open_files refers to a node that is linked in a
\* directory tree (a file is deleted only when closed), so read and write on
\* a deleted name find no entry
C10_OpenEntriesLinked ==
    ~crashed => \A f \in DOMAIN open_files : open_files[f].att

\* the fields the file operations work on
FsFields(self) ==
    <<self.root, self.fat_table, self.next_free_space, self.disk_space, self.open_files>>

\* C11: read(f) and write(f, s) succeed only if an earlier open(f) succeeded
\* and no close(f) succeeded since; on any other name they answer
\* "File not opened." and leave the tree, the FAT, the cursor, the disk and
\* open_files as they were
C11_OpenCloseGating ==
    ~crashed =>
        \A f \in Names :
            /\ read(vfs, f).ret.msg = "content" => f \in opened
            /\ \A s \in Texts :
                  write(vfs, f, s).ret.msg = "Content written to file." => f \in opened
            /\ f \notin opened =>
                  /\ read(vfs, f).ret.msg = "File not opened."
                  /\ ~read(vfs, f).fault
                  /\ FsFields(read(vfs, f).self) = FsFields(vfs)
                  /\ \A s \in Texts :
                        /\ write(vfs, f, s).ret.msg = "File not opened."
                        /\ ~write(vfs, f, s).fault
                        /\ FsFields(write(vfs, f, s).self) = FsFields(vfs)

\* a was opened, written, closed; b is open: a file in the current directory
\* with content that was closed, beside a name that reads back
C11_Witness ==
    /\ LoggedIn
    /\ \E f \in Names :
          /\ f \notin opened
          /\ f \in CurChildren(vfs)
          /\ CurChild(vfs, f).type = "file"
          /\ CurChild(vfs, f).content # <<>>
          /\ read(vfs, f).ret.msg = "File not opened."
    /\ \E g \in opened : read(vfs, g).ret.msg = "content"

\* C12: create(f) and md(f) on a name that is already a child of the current
\* directory, file or directory, answer "already exists" and change no field,
\* so the directory keeps one child of that name, the one it had
C12_NameCollision ==
    LoggedIn =>
        \A f \in CurChildren(vfs) :
            /\ create(vfs, f) = Ret(vfs, "File already exists.", "")
            /\ md(vfs, f) = Ret(vfs, "Directory already exists.", "")
            /\ CurChild(create(vfs, f).self, f) = CurChild(vfs, f)
            /\ CurChild(md(vfs, f).self, f) = CurChild(vfs, f)

\* the current directory holds a file with content and a directory
C12_Witness ==
    /\ LoggedIn
    /\ \E f \in CurChildren(vfs) :
          CurChild(vfs, f).type = "file" /\ CurChild(vfs, f).content # <<>>
    /\ \E g \in CurChildren(vfs) : CurChild(vfs, g).type = "dir"

\* the session: the user, the working directory and the current path
Session(self) == <<self.current_user, self.current_dir, self.path>>

\* C13: login(u, p) with u not registered, or with p not the password u was
\* registered with, answers "Login failed." and leaves the user, the working
\* directory and the path as they were; with the registered password it
\* answers success, makes u the current user, u's root the working directory
\* and the path empty
C13_Authentication ==
    ~crashed =>
        \A u \in Users, p \in Passwords :
            LET r == login(vfs, u, p)
            IN  IF u \in DOMAIN root /\ root[u].password = p
                THEN /\ r.ret.msg = "User logged in successfully."
                     /\ ~r.fault
                     /\ r.self.current_user = u
                     /\ r.self.current_dir = <<[user |-> u, path |-> <<>>]>>
                     /\ r.self.path = <<>>
                ELSE /\ r.ret.msg = "Login failed."
                     /\ ~r.fault
                     /\ Session(r.self) = Session(vfs)

\* a user is logged in below the root of their tree, a second user is
\* registered, and one of the passwords is not the current user's
C13_Witness ==
    /\ LoggedIn
    /\ path # <<>>
    /\ \E u \in DOMAIN root : u # current_user
    /\ \E p \in Passwords : login(vfs, current_user, p).ret.msg = "Login failed."

\* C14: cd("..") with an empty path answers "Already at the root directory."
\* and changes neither the path nor the working directory; with a non-empty
\* path it removes exactly the last name. cd(name) succeeds only when name is
\* a child directory of the working directory, and answers "Directory not
\* found." with nothing changed when name is absent or is a file
C14_RootBoundary ==
    /\ ~crashed =>
          LET r == cd(vfs, "..")
          IN  IF path = <<>>
              THEN r = Ret(vfs, "Already at the root directory.", "")
              ELSE /\ r.ret.msg = "Returned to the parent directory."
                   /\ ~r.fault
                   /\ r.self.path = SubSeq(path, 1, Len(path) - 1)
                   /\ r.self.current_dir =
                         <<[user |-> current_user, path |-> r.self.path]>>
    /\ LoggedIn =>
          \A name \in Names :
              LET r == cd(vfs, name)
              IN  IF name \in CurChildren(vfs) /\ CurChild(vfs, name).type = "dir"
                  THEN /\ r.ret.msg = "Changed directory."
                       /\ r.self.path = Append(path, name)
                  ELSE r = Ret(vfs, "Directory not found.", "")

\* below the root, in a directory that holds a file and lacks a name
C14_Witness ==
    /\ LoggedIn
    /\ path # <<>>
    /\ \E f \in CurChildren(vfs) : CurChild(vfs, f).type = "file"
    /\ \E g \in Names : g \notin CurChildren(vfs)

RECURSIVE SumExtents(_, _)
\* the sum of (end - start) over the entries named in S
SumExtents(fat, S) ==
    IF S = {} THEN 0
    ELSE LET k == CHOOSE x \in S : TRUE
         IN  (fat[k][2] - fat[k][1]) + SumExtents(fat, S \ {k})

\* C15: the used-bytes figure of the disk usage report is the sum of
\* (end - start) over all FAT entries
C15_UsedBytesIsExtentSum ==
    ~crashed => UsedBytes(vfs) = SumExtents(fat_table, DOMAIN fat_table)

\* C16: del(name) never removes a directory node and rd(name) never removes a
\* file node: on a child of the other type each leaves the child where it is,
\* and rd answers "Directory not found or is a file." with nothing changed
C16_TypeSeparation ==
    LoggedIn =>
        \A name \in CurChildren(vfs) :
            /\ CurChild(vfs, name).type = "dir" =>
                  /\ name \in CurChildren(delete(vfs, name).self)
                  /\ CurChild(delete(vfs, name).self, name).type = "dir"
            /\ CurChild(vfs, name).type = "file" =>
                  rd(vfs, name) = Ret(vfs, "Directory not found or is a file.", "")

\* C17: while a user is logged in the working directory is the node reached
\* from that user's root along the current path, and every name on the path
\* names a directory that exists
C17_WorkingDirectoryOnPath ==
    LoggedIn =>
        /\ current_user \in DOMAIN root
        /\ current_dir = <<[user |-> current_user, path |-> path]>>
        /\ \A k \in 1..Len(path) :
              /\ SubSeq(path, 1, k) \in DOMAIN root[current_user].FAT
              /\ root[current_user].FAT[SubSeq(path, 1, k)].type = "dir"

\* two levels below the root, with another user registered
C17_Witness ==
    /\ LoggedIn
    /\ Len(path) = 2
    /\ Cardinality(DOMAIN root) = 2

\* the names of the file nodes present in the trees of all users
AllFileNames(self) ==
    UNION {_build_file_paths(self.root[u].FAT) : u \in DOMAIN self.root}

\* C18: every file node present in a user tree has a FAT entry under its
\* name, and every FAT entry is under the name of a file node still present
\* in some tree
C18_FatTreeConsistency ==
    ~crashed => DOMAIN fat_table = AllFileNames(vfs)

\* C19: with a user logged in, read(f) never returns, and write(f, s) never
\* changes, the content of a file node that lives in the tree of another user
C19_UserPrivacy ==
    LoggedIn =>
        \A v \in DOMAIN root \ {current_user} :
            \A f \in Names :
                /\ ~(/\ read(vfs, f).ret.msg = "content"
                     /\ open_files[f].att
                     /\ open_files[f].user = v)
                /\ \A s \in Texts : write(vfs, f, s).self.root[v] = root[v]

\* the answers that report a failure
FailureAnswers ==
    {"User already exists.", "Login failed.", "No user currently logged in.",
     "File already exists.", "File not found.", "File not found or already opened.",
     "File not opened.", "Already at the root directory.", "Directory not found.",
     "Directory not found or is a file.", "Directory already exists.",
     "No command entered.", "Invalid command or incorrect number of arguments."}

\* C20: a command that answers with a failure, or that raises, leaves every
\* field as it was before the command
C20_NoPartialEffect ==
    ~crashed =>
        \A args \in Commands :
            LET r == process_command(vfs, args)
            IN  (r.fault \/ r.ret.msg \in FailureAnswers) => r.self = vfs

====
